---- MODULE Spec2Model ----
(***************************************************************************)
(* Model of the Pro Binder pipeline of src/app.py: the analysis of the     *)
(* uploaded files, the page accounting, the table of contents, the page    *)
(* stamper and the assembly of the output bundle.                          *)
(***************************************************************************)
EXTENDS Integers, Sequences, FiniteSets, TLC

\* ---------------------------------------------------------------- bounds
\* Longest uploaded list.
MaxFiles == 28
\* Only the first MaxVaried uploads range over the whole file universe; the
\* uploads after them are the plain one-page PDF.
MaxVaried == 2
\* Largest page count of an uploaded PDF.
MaxPages == 3

\* ------------------------------------------------------ program constants
\* reportlab.lib.pagesizes.letter is (612, 792) points.
PageHeight == 792
\* y = height - 100: the first TOC entry.
TocFirstEntryOffset == 100
\* y -= 25
TocLineHeight == 25
\* if y < 50
TocMinMargin == 50
\* y = height - 50 after showPage
TocNextPageOffset == 50
\* can.drawString(50, height - 50, "Table of Contents")
TocHeaderOffset == 50
\* current_page = 2 in create_toc
TocStartPage == 2
\* name[:60]
MaxNameLen == 60

\* ------------------------------------------------------------- strings
\* str.lower() on the letters; every other character maps to itself.
LowerTable ==
    [A |-> "a", B |-> "b", C |-> "c", D |-> "d", E |-> "e", F |-> "f", G |-> "g",
     H |-> "h", I |-> "i", J |-> "j", K |-> "k", L |-> "l", M |-> "m", N |-> "n",
     O |-> "o", P |-> "p", Q |-> "q", R |-> "r", S |-> "s", T |-> "t", U |-> "u",
     V |-> "v", W |-> "w", X |-> "x", Y |-> "y", Z |-> "z"]

CharAt(s, i) == SubSeq(s, i, i)

LowerChar(c) == IF c \in DOMAIN LowerTable THEN LowerTable[c] ELSE c

RECURSIVE LowerFrom(_, _)
LowerFrom(s, i) ==
    IF i > Len(s) THEN "" ELSE LowerChar(CharAt(s, i)) \o LowerFrom(s, i + 1)

\* str.lower()
Lower(s) == LowerFrom(s, 1)

\* Position of the last '.' of s at or before i, 0 when there is none.
RECURSIVE LastDotFrom(_, _)
LastDotFrom(s, i) ==
    IF i = 0 THEN 0
    ELSE IF CharAt(s, i) = "." THEN i
    ELSE LastDotFrom(s, i - 1)

LastDot(s) == LastDotFrom(s, Len(s))

\* f.name.lower().split('.')[-1]
FileExtension(name) ==
    LET low == Lower(name)
    IN  SubSeq(low, LastDot(low) + 1, Len(low))

\* (name[:60] + '...') if len(name) > 60 else name
DisplayName(name) ==
    IF Len(name) > MaxNameLen THEN SubSeq(name, 1, MaxNameLen) \o "..." ELSE name

\* f"Page {start_page + i} of {total_pages}"
FooterText(n, total) == "Page " \o ToString(n) \o " of " \o ToString(total)

\* f"Page {current_page}"
TocLabel(n) == "Page " \o ToString(n)

\* --------------------------------------------------------- uploaded files
ImageExtensions == {"png", "jpg", "jpeg"}

PdfBytes(k) == [fmt |-> "pdf", pages |-> k]
ImgBytes    == [fmt |-> "img", pages |-> 1]
JunkBytes   == [fmt |-> "junk", pages |-> 0]

LongName == "annual-financial-statement-and-supporting-schedules-fiscal-year-2024-final.pdf"

PlainFile == [name |-> "A.pdf", bytes |-> PdfBytes(1)]

\* The uploads the model draws from: PDFs of one and of MaxPages pages, images, a
\* corrupt PDF, an undecodable image, an upper-case extension, a file of an
\* unsupported type and a name longer than MaxNameLen.
FileUniverse ==
    { [name |-> "A.pdf", bytes |-> PdfBytes(k)] : k \in {1, MaxPages} }
    \cup { [name |-> "B.jpg", bytes |-> ImgBytes],
           [name |-> "C.PNG", bytes |-> ImgBytes],
           [name |-> "bad.pdf", bytes |-> JunkBytes],
           [name |-> "bad.jpeg", bytes |-> JunkBytes],
           [name |-> "notes.txt", bytes |-> PdfBytes(1)],
           [name |-> LongName, bytes |-> PdfBytes(2)] }

\* ------------------------------------------------------------------ pages
\* A page of an uploaded document: the upload position it came from, its
\* index in that document and the overlays merged onto it.
DocPage(pos, j) == [kind |-> "doc", src |-> pos, no |-> j, content |-> <<>>, stamps |-> <<>>]

\* A page drawn by the TOC canvas.
TocPage(items) == [kind |-> "toc", src |-> 0, no |-> 0, content |-> items, stamps |-> <<>>]

\* PdfReader(...).pages of a document of k pages uploaded at position pos.
ReaderPages(pos, k) == [j \in 1..k |-> DocPage(pos, j)]

\* image_to_pdf_bytes: Image.open raises on anything that is not an image,
\* the except clause turns it into ValueError.
ImageConverts(f) == f.bytes.fmt = "img"

\* Faulty variant: a PDF that cannot be parsed is read as an empty document.
PdfParsesAlways(f) == TRUE

\* PdfReader(f) and len(reader.pages) succeed on a parseable PDF only.
PdfParses(f) == f.bytes.fmt = "pdf"

NoEntry == [name |-> "", reader |-> <<>>, count |-> 0]
NoMsg == [level |-> "", about |-> "", name |-> ""]

\* FileExtension of every name of the universe, evaluated once.
ExtensionOf == [n \in {f.name : f \in FileUniverse} |-> FileExtension(n)]

\* One iteration of the analysis loop on the file at upload position pos.
ProcessFile(f, pos) ==
    LET file_extension == ExtensionOf[f.name]
    IN  IF file_extension \in ImageExtensions
        THEN IF ImageConverts(f)
             THEN LET reader == ReaderPages(pos, 1)
                  IN  [ok |-> TRUE,
                       entry |-> [name |-> f.name, reader |-> reader, count |-> Len(reader)],
                       msg |-> NoMsg]
             ELSE [ok |-> FALSE, entry |-> NoEntry,
                   msg |-> [level |-> "error", about |-> "image", name |-> f.name]]
        ELSE IF file_extension = "pdf"
        THEN IF PdfParses(f)
             THEN LET reader == ReaderPages(pos, f.bytes.pages)
                  IN  [ok |-> TRUE,
                       entry |-> [name |-> f.name, reader |-> reader, count |-> Len(reader)],
                       msg |-> NoMsg]
             ELSE [ok |-> FALSE, entry |-> NoEntry,
                   msg |-> [level |-> "error", about |-> "pdf", name |-> f.name]]
        ELSE [ok |-> FALSE, entry |-> NoEntry,
              msg |-> [level |-> "warning", about |-> "unsupported", name |-> f.name]]

\* for f in uploaded_files: ... processed_files.append(...) / continue
RECURSIVE AnalysisLoop(_, _, _, _)
AnalysisLoop(files, i, processed, msgs) ==
    IF i > Len(files) THEN [processed |-> processed, msgs |-> msgs]
    ELSE LET r == ProcessFile(files[i], i)
         IN  IF r.ok
             THEN AnalysisLoop(files, i + 1, Append(processed, r.entry), msgs)
             ELSE AnalysisLoop(files, i + 1, processed, Append(msgs, r.msg))

RECURSIVE SumSeq(_)
SumSeq(s) == IF s = <<>> THEN 0 ELSE Head(s) + SumSeq(Tail(s))

Names(processed)  == [i \in 1..Len(processed) |-> processed[i].name]
Counts(processed) == [i \in 1..Len(processed) |-> processed[i].count]
Readers(processed) == [i \in 1..Len(processed) |-> processed[i].reader]

\* Faulty variant: the TOC page is left out of the total.
TotalPagesWithoutToc(page_counts, toc) == SumSeq(page_counts)

\* total_pages = sum(page_counts); if use_toc: total_pages += 1
TotalPagesOf(page_counts, toc) ==
    IF toc THEN SumSeq(page_counts) + 1 ELSE SumSeq(page_counts)

\* ------------------------------------------------------------ create_toc
Min(a, b) == IF a < b THEN a ELSE b

TocHeader == [y |-> PageHeight - TocHeaderOffset, left |-> "Table of Contents", right |-> ""]

\* The loop of create_toc followed by can.save(). cur holds what has been
\* drawn on the canvas page that is open, done the pages closed by showPage;
\* save closes the open page only if something was drawn on it.
RECURSIVE TocLoop(_, _, _, _, _, _, _)
TocLoop(file_names, page_counts, i, y, current_page, cur, done) ==
    IF i > Min(Len(file_names), Len(page_counts))
    THEN IF cur # <<>> THEN Append(done, TocPage(cur)) ELSE done
    ELSE LET item == [y |-> y, left |-> DisplayName(file_names[i]),
                      right |-> TocLabel(current_page)]
             drawn == Append(cur, item)
             y2 == y - TocLineHeight
         IN  IF y2 < TocMinMargin
             THEN TocLoop(file_names, page_counts, i + 1, PageHeight - TocNextPageOffset,
                          current_page + page_counts[i], <<>>, Append(done, TocPage(drawn)))
             ELSE TocLoop(file_names, page_counts, i + 1, y2,
                          current_page + page_counts[i], drawn, done)

\* Faulty variant: the TOC numbers the first document as page 1.
CreateTocFromOne(file_names, page_counts) ==
    TocLoop(file_names, page_counts, 1, PageHeight - TocFirstEntryOffset,
            TocStartPage - 1, <<TocHeader>>, <<>>)

\* create_toc(file_names, page_counts): the pages of the returned packet.
CreateToc(file_names, page_counts) ==
    TocLoop(file_names, page_counts, 1, PageHeight - TocFirstEntryOffset,
            TocStartPage, <<TocHeader>>, <<>>)

\* Faulty variant: every page of the packet is added.
TocPagesAll(packet) == packet

\* final_writer.add_page(PdfReader(toc_packet).pages[0])
TocPagesAdded(packet) == <<packet[1]>>

\* ---------------------------------------------------- stamp_page_numbers
\* Faulty variant: the footer counts the page index from 1.
StampPageNumbersFromOne(reader, start_page, total) ==
    [j \in 1..Len(reader) |->
        [reader[j] EXCEPT !.stamps = Append(@, FooterText(start_page + j, total))]]

\* Python's enumerate index i is j - 1.
StampPageNumbers(reader, start_page, total) ==
    [j \in 1..Len(reader) |->
        [reader[j] EXCEPT !.stamps = Append(@, FooterText(start_page + (j - 1), total))]]

\* Faulty variant: the counter ignores the TOC page.
CounterSeedOne(toc) == 1

\* current_page_counter = 2 if use_toc else 1
CounterSeed(toc) == IF toc THEN 2 ELSE 1

\* Faulty variant: the stamped branch also adds the reader's own pages.
ChunkPagesTwice(reader, numbers, start_page, total) ==
    IF numbers THEN StampPageNumbers(reader, start_page, total) \o reader ELSE reader

\* The pages one iteration of the merge loop appends to final_writer.
ChunkPages(reader, numbers, start_page, total) ==
    IF numbers THEN StampPageNumbers(reader, start_page, total) ELSE reader

\* current_page_counter += count
Advance(counter, count) == counter + count

\* for idx, (reader, count) in enumerate(zip(readers, page_counts)): the
\* writer, the counter and the start page of every iteration after the loop.
RECURSIVE MergeLoop(_, _, _, _, _, _, _, _)
MergeLoop(readers, page_counts, i, numbers, total, writer, counter, starts) ==
    IF i > Min(Len(readers), Len(page_counts))
    THEN [writer |-> writer, counter |-> counter, starts |-> starts]
    ELSE MergeLoop(readers, page_counts, i + 1, numbers, total,
                   writer \o ChunkPages(readers[i], numbers, counter, total),
                   Advance(counter, page_counts[i]),
                   Append(starts, counter))

\* ------------------------------------------------------------------ state
VARIABLES
    uploaded_files,        \* st.file_uploader: the ordered uploads
    use_toc,               \* checkbox "Generate Table of Contents"
    use_numbers,           \* checkbox "Add Page Numbers"
    pc,                    \* "idle", or "done" after a run of the button's block
    processed_files,       \* the successfully read documents
    messages,              \* st.error / st.warning shown during the analysis
    total_pages,
    toc_packet,            \* pages of the packet returned by create_toc
    final_writer,          \* pages added to the output writer
    current_page_counter,
    start_pages,           \* current_page_counter at the start of each merge iteration
    output                 \* the download button: whether it is shown, and the
                           \* pages of the PDF it carries

vars == <<uploaded_files, use_toc, use_numbers, pc, processed_files, messages,
          total_pages, toc_packet, final_writer, current_page_counter,
          start_pages, output>>

runVars == <<processed_files, messages, total_pages, toc_packet, final_writer,
             current_page_counter, start_pages, output>>

NoOutput == [offered |-> FALSE, pages |-> <<>>]

\* The page after construction: nothing uploaded, both checkboxes ticked.
Init ==
    /\ uploaded_files = <<>>
    /\ use_toc = TRUE
    /\ use_numbers = TRUE
    /\ pc = "idle"
    /\ processed_files = <<>>
    /\ messages = <<>>
    /\ total_pages = 0
    /\ toc_packet = <<>>
    /\ final_writer = <<>>
    /\ current_page_counter = 0
    /\ start_pages = <<>>
    /\ output = NoOutput

\* The user adds a file to the uploader.
Upload(f) ==
    /\ pc = "idle"
    /\ Len(uploaded_files) < MaxFiles
    /\ Len(uploaded_files) >= MaxVaried => f = PlainFile
    /\ uploaded_files' = Append(uploaded_files, f)
    /\ UNCHANGED <<use_toc, use_numbers, pc, runVars>>

ToggleToc ==
    /\ pc = "idle"
    /\ use_toc' = ~use_toc
    /\ UNCHANGED <<uploaded_files, use_numbers, pc, runVars>>

ToggleNumbers ==
    /\ pc = "idle"
    /\ use_numbers' = ~use_numbers
    /\ UNCHANGED <<uploaded_files, use_toc, pc, runVars>>

\* if uploaded_files and st.button("Create Professional Bundle"): one run of
\* the block, phases A to D. No statement of the block outside the per-file
\* try clauses raises on the values the model draws, so the except clause of
\* the block is never entered.
CreateBundle ==
    /\ pc = "idle"
    /\ uploaded_files # <<>>
    \* A. Analysis Phase
    /\ \E a \in {AnalysisLoop(uploaded_files, 1, <<>>, <<>>)} :
       \E total \in {TotalPagesOf(Counts(a.processed), use_toc)} :
       \* B. TOC Phase
       \E packet \in {IF use_toc
                      THEN CreateToc(Names(a.processed), Counts(a.processed))
                      ELSE <<>>} :
       \* C. Merging & Stamping Phase
       \E m \in {MergeLoop(Readers(a.processed), Counts(a.processed), 1,
                           use_numbers, total,
                           IF use_toc THEN TocPagesAdded(packet) ELSE <<>>,
                           CounterSeed(use_toc), <<>>)} :
           /\ processed_files' = a.processed
           /\ messages' = a.msgs
           /\ total_pages' = total
           /\ toc_packet' = packet
           /\ final_writer' = m.writer
           /\ current_page_counter' = m.counter
           /\ start_pages' = m.starts
           \* D. Finalize
           /\ output' = [offered |-> TRUE, pages |-> m.writer]
    /\ pc' = "done"
    /\ UNCHANGED <<uploaded_files, use_toc, use_numbers>>

\* The next interaction reruns the script: st.button is False, the block is
\* skipped and the previous run's messages and download button are gone.
Rerun ==
    /\ pc = "done"
    /\ pc' = "idle"
    /\ processed_files' = <<>>
    /\ messages' = <<>>
    /\ total_pages' = 0
    /\ toc_packet' = <<>>
    /\ final_writer' = <<>>
    /\ current_page_counter' = 0
    /\ start_pages' = <<>>
    /\ output' = NoOutput
    /\ UNCHANGED <<uploaded_files, use_toc, use_numbers>>

Next ==
    \/ \E f \in FileUniverse : Upload(f)
    \/ ToggleToc
    \/ ToggleNumbers
    \/ CreateBundle
    \/ Rerun

Spec == Init /\ [][Next]_vars

TypeOK ==
    /\ pc \in {"idle", "done"}
    /\ Len(uploaded_files) <= MaxFiles
    /\ use_toc \in BOOLEAN
    /\ use_numbers \in BOOLEAN
    /\ output.offered \in BOOLEAN

\* ------------------------------------------------- vocabulary of the claims
\* The intake of f succeeds: a supported image that decodes, or a PDF that
\* parses.
Succeeds(f) ==
    \/ FileExtension(f.name) \in {"png", "jpg", "jpeg"} /\ f.bytes.fmt = "img"
    \/ FileExtension(f.name) = "pdf" /\ f.bytes.fmt = "pdf"

\* The files of the universe whose intake succeeds.
GoodFiles == {f \in FileUniverse : Succeeds(f)}

\* Upload positions of the files that succeed (good = TRUE) or fail
\* (good = FALSE), in upload order.
RECURSIVE PositionsFrom(_, _)
PositionsFrom(i, good) ==
    IF i > Len(uploaded_files) THEN <<>>
    ELSE (IF (uploaded_files[i] \in GoodFiles) = good THEN <<i>> ELSE <<>>)
         \o PositionsFrom(i + 1, good)

GoodPositions == PositionsFrom(1, TRUE)
BadPositions  == PositionsFrom(1, FALSE)

\* Page count of the file uploaded at position i.
PagesAt(i) == uploaded_files[i].bytes.pages

\* ps being upload positions: before[i] is the number of pages of the
\* documents ps[1..i-1], and before[Len(ps) + 1] the number of all pages.
RECURSIVE PagesBeforeFrom(_, _, _)
PagesBeforeFrom(ps, i, acc) ==
    IF i > Len(ps) THEN <<acc>>
    ELSE <<acc>> \o PagesBeforeFrom(ps, i + 1, acc + PagesAt(ps[i]))

PagesBefore(ps) == PagesBeforeFrom(ps, 1, 0)

TocBit == IF use_toc THEN 1 ELSE 0

\* <<upload position, page index>> of every page of the documents ps, in
\* the order of ps and in page order.
RECURSIVE ExpectedDocPagesFrom(_, _)
ExpectedDocPagesFrom(ps, i) ==
    IF i > Len(ps) THEN <<>>
    ELSE [j \in 1..PagesAt(ps[i]) |-> <<ps[i], j>>] \o ExpectedDocPagesFrom(ps, i + 1)

ExpectedDocPages(ps) == ExpectedDocPagesFrom(ps, 1)

\* Upload positions of the documents of a page sequence, in order of their
\* first page.
RECURSIVE BundleDocsFrom(_, _, _)
BundleDocsFrom(pages, k, last) ==
    IF k > Len(pages) THEN <<>>
    ELSE IF pages[k].kind = "doc" /\ pages[k].src # last
    THEN <<pages[k].src>> \o BundleDocsFrom(pages, k + 1, pages[k].src)
    ELSE BundleDocsFrom(pages, k + 1, last)

BundleDocs(pages) == BundleDocsFrom(pages, 1, 0)

\* Absolute (1-based) position in pages of the first page of document src.
FirstPosition(pages, src) ==
    CHOOSE k \in 1..Len(pages) :
        /\ pages[k].kind = "doc" /\ pages[k].src = src
        /\ \A m \in 1..(k - 1) : ~(pages[m].kind = "doc" /\ pages[m].src = src)

\* The entries create_toc drew, over all pages of the packet, without the
\* header.
RECURSIVE EntriesOf(_)
EntriesOf(packet) ==
    IF packet = <<>> THEN <<>>
    ELSE SelectSeq(Head(packet).content, LAMBDA it : it.right # "") \o EntriesOf(Tail(packet))

\* The entries on the TOC pages of a page sequence.
TocEntriesIn(pages) == EntriesOf(SelectSeq(pages, LAMBDA p : p.kind = "toc"))

\* ------------------------------------------------------------------ claims
\* C1: for a non-empty list of processed documents and either value of the
\* TOC option, total_pages is the sum of the documents' page counts plus 1
\* if the TOC is enabled and plus 0 otherwise.
C1_TotalPages ==
    (pc = "done") =>
        LET good == GoodPositions
        IN  good # <<>> => total_pages = PagesBefore(good)[Len(good) + 1] + TocBit

C1_Witness ==
    /\ pc = "done"
    /\ use_toc
    /\ Len(processed_files) = 2
    /\ Counts(processed_files) = <<3, 1>>
    /\ total_pages = 5

\* C2: the merge loop uses start page 2 (TOC enabled) or 1 (TOC disabled) for
\* the first document, and the start page of each next document is the
\* previous start page plus the previous document's page count.
C2_StartPages ==
    (pc = "done") =>
        LET good == GoodPositions
        IN  /\ Len(start_pages) >= 1 => start_pages[1] = (IF use_toc THEN 2 ELSE 1)
            /\ \A i \in 1..(Len(start_pages) - 1) :
                  start_pages[i + 1] = start_pages[i] + PagesAt(good[i])
            /\ Len(start_pages) = Len(good)

C2_Witness ==
    /\ pc = "done"
    /\ use_toc
    /\ Len(start_pages) >= 3
    /\ start_pages[2] = 5
    /\ start_pages[3] = 6

\* C3: whenever a run offers an output, the number of pages of the output
\* equals total_pages.
C3_BundlePageCount ==
    output.offered => Len(output.pages) = total_pages

\* An output offered after the TOC overflowed its first page.
C3_Witness ==
    /\ output.offered
    /\ use_toc
    /\ Len(toc_packet) > 1
    /\ Len(output.pages) > TocBit

\* C4: with page numbers enabled, the pages a document contributes are its
\* own pages in order, page j (0-based) of the document with start page s
\* carries exactly the footer "Page {s + j} of {total_pages}", and every
\* document page at absolute position k of the output reads
\* "Page k of N" with N the number of pages of the output.
C4_Footers ==
    (pc = "done" /\ use_numbers) =>
        LET good == GoodPositions
            before == PagesBefore(good)
        IN  /\ \A i \in 1..Len(start_pages) :
                  \A j \in 1..PagesAt(good[i]) :
                     LET at == TocBit + before[i] + j
                     IN  /\ at \in 1..Len(final_writer)
                         /\ final_writer[at].kind = "doc"
                         /\ final_writer[at].src = good[i]
                         /\ final_writer[at].no = j
                         /\ final_writer[at].stamps =
                                <<FooterText(start_pages[i] + (j - 1), total_pages)>>
            /\ output.offered =>
                  \A k \in 1..Len(output.pages) :
                     output.pages[k].kind = "doc" =>
                        output.pages[k].stamps = <<FooterText(k, Len(output.pages))>>

\* A.pdf of 3 pages and B.jpg with the TOC: page 2 reads "Page 2 of 5" and
\* page 5 reads "Page 5 of 5".
C4_Witness ==
    /\ output.offered
    /\ use_numbers
    /\ use_toc
    /\ Len(output.pages) = 5
    /\ Len(uploaded_files) = 2
    /\ uploaded_files[2].name = "B.jpg"
    /\ output.pages[2].stamps = <<"Page 2 of 5">>
    /\ output.pages[5].stamps = <<"Page 5 of 5">>
    /\ output.pages[5].src = 2

\* C5: with the TOC enabled, the k-th entry written by create_toc names the
\* k-th document of the bundle, and the page number printed on it is the
\* start page the merge loop used for that document, which is the absolute
\* position of the document's first page in the bundle.
C5_TocMatchesBundle ==
    (pc = "done" /\ use_toc) =>
        LET entries == EntriesOf(toc_packet)
            docs == BundleDocs(output.pages)
        IN  /\ Len(entries) = Len(docs)
            /\ Len(start_pages) = Len(docs)
            /\ \A k \in 1..Len(docs) :
                  /\ entries[k].left = DisplayName(uploaded_files[docs[k]].name)
                  /\ entries[k].right = TocLabel(start_pages[k])
                  /\ start_pages[k] = FirstPosition(output.pages, docs[k])

\* A TOC over three documents, one of them excluded before it, with a
\* truncated name among the entries.
C5_Witness ==
    /\ pc = "done"
    /\ use_toc
    /\ Len(uploaded_files) = 4
    /\ uploaded_files[1].name = "bad.pdf"
    /\ Len(EntriesOf(toc_packet)) = 3
    /\ Len(EntriesOf(toc_packet)[1].left) = MaxNameLen + 3
    /\ EntriesOf(toc_packet)[2].right = "Page 4"

\* C6: with the TOC enabled, the TOC pages placed in the output list an entry
\* (display name and start page) for every document whose pages are in the
\* output, also when the entries do not fit on one TOC page.
C6_EveryDocumentListed ==
    (output.offered /\ use_toc) =>
        LET entries == TocEntriesIn(output.pages)
            docs == BundleDocs(output.pages)
        IN  \A k \in 1..Len(docs) :
               \E e \in 1..Len(entries) :
                  /\ entries[e].left = DisplayName(uploaded_files[docs[k]].name)
                  /\ entries[e].right = TocLabel(FirstPosition(output.pages, docs[k]))

\* C7: when the TOC entries overflow the first TOC page, total_pages and the
\* documents' start pages count every TOC page.
C7_OverflowAccounted ==
    (pc = "done" /\ use_toc /\ Len(toc_packet) > 1) =>
        LET good == GoodPositions
        IN  /\ total_pages = PagesBefore(good)[Len(good) + 1] + Len(toc_packet)
            /\ Len(start_pages) >= 1 => start_pages[1] = Len(toc_packet) + 1

\* C8: a file whose intake fails is excluded and reported by name, the run
\* continues, and the documents used for counting, TOC and bundle are exactly
\* the files that succeeded, in upload order.
C8_FailedFilesExcluded ==
    (pc = "done") =>
        LET good == GoodPositions
            bad == BadPositions
            before == PagesBefore(good)
        IN  /\ Len(processed_files) = Len(good)
            /\ \A i \in 1..Len(good) :
                  /\ processed_files[i].name = uploaded_files[good[i]].name
                  /\ processed_files[i].count = PagesAt(good[i])
                  /\ processed_files[i].reader = ReaderPages(good[i], PagesAt(good[i]))
            /\ Len(messages) = Len(bad)
            /\ \A i \in 1..Len(bad) : messages[i].name = uploaded_files[bad[i]].name
            /\ total_pages = before[Len(good) + 1] + TocBit
            /\ \A k \in 1..Len(final_writer) :
                  final_writer[k].kind = "doc" =>
                      \E i \in 1..Len(good) : final_writer[k].src = good[i]
            /\ output.offered
            /\ BundleDocs(output.pages) = good
            /\ start_pages = [i \in 1..Len(good) |->
                                  (IF use_toc THEN 2 ELSE 1) + before[i]]
            /\ use_toc => Len(EntriesOf(toc_packet)) = Len(good)

\* One corrupt PDF between two valid ones: the bundle holds the two valid
\* documents' pages only and the corrupt file is reported.
C8_Witness ==
    /\ pc = "done"
    /\ Len(uploaded_files) = 3
    /\ uploaded_files[2].name = "bad.pdf"
    /\ GoodPositions = <<1, 3>>
    /\ messages = <<[level |-> "error", about |-> "pdf", name |-> "bad.pdf"]>>
    /\ BundleDocs(output.pages) = <<1, 3>>

\* C9: the output is the TOC page first (only if the TOC is enabled) followed
\* by the pages of each bundled document in upload order, each document's
\* pages in their own order, none duplicated, dropped or moved, with or
\* without page numbers.
C9_BundleOrder ==
    output.offered =>
        LET expected == ExpectedDocPages(GoodPositions)
        IN  /\ Len(output.pages) = TocBit + Len(expected)
            /\ use_toc => output.pages[1].kind = "toc"
            /\ \A k \in 1..Len(expected) :
                  /\ output.pages[TocBit + k].kind = "doc"
                  /\ output.pages[TocBit + k].src = expected[k][1]
                  /\ output.pages[TocBit + k].no = expected[k][2]
                  /\ output.pages[TocBit + k].content = <<>>

\* A.pdf of 3 pages and B.jpg, TOC off, numbers off: 4 pages, A then B.
C9_Witness ==
    /\ output.offered
    /\ ~use_toc
    /\ ~use_numbers
    /\ Len(uploaded_files) = 2
    /\ uploaded_files[2].name = "B.jpg"
    /\ Len(output.pages) = 4
    /\ output.pages[3].src = 1 /\ output.pages[3].no = 3
    /\ output.pages[4].src = 2
    /\ output.pages[4].stamps = <<>>

\* C10: the counting, TOC, stamping and assembly phases never run with zero
\* documents and no output is offered without at least one document's pages,
\* both for an empty upload list and when every upload is excluded.
C10_NoEmptyBundle ==
    /\ pc = "done" => processed_files # <<>>
    /\ output.offered => \E k \in 1..Len(output.pages) : output.pages[k].kind = "doc"
====
